---------------------------- MODULE Spec2Model ----------------------------
(***************************************************************************)
(* A model of rt-renderer's frame-rendering pipeline:                      *)
(*   src/src/lib.rs                   App::run (startup, redraw, events)   *)
(*   src/src/pipeline/mod.rs          draw                                 *)
(*   src/src/pipeline/sample/mod.rs   SamplePipeline::new, render_object   *)
(*                                                                         *)
(* App::run is one thread: pc is its position.  The GPU and the            *)
(* presentation engine run beside it (ImageAvailable, GpuExecute); the     *)
(* thread only meets them inside renderer.present(after, true), which      *)
(* blocks until the frame's fence signals.                                 *)
(*                                                                         *)
(* Three collaborators are libraries, modelled by their documented         *)
(* contract at the place run calls them:                                   *)
(*  - winit's event loop dispatches, per iteration, the window events,     *)
(*    then RedrawRequested if a redraw was requested, then AboutToWait,    *)
(*    and tests elwt.exiting() only between iterations;                    *)
(*  - VulkanoWindowRenderer::resize marks the swapchain for recreation,    *)
(*    acquire recreates a marked swapchain at the window's size and        *)
(*    returns previous_frame_end joined with the image's availability,     *)
(*    present flushes, waits for the fence and stores the frame's token    *)
(*    as previous_frame_end; a failed flush is reported, not raised, and   *)
(*    restarts the chain from an empty token;                              *)
(*  - a GpuFuture is modelled as the set of GPU events it covers.          *)
(* draw is declared with (dst_image, depth_image) while run passes         *)
(* (msaa_color_image, swapchain_image_view, depth_image): the model binds  *)
(* draw's parameters by name, dst_image to the swapchain image view and    *)
(* depth_image to depth_image; msaa_color_image reaches no parameter.      *)
(***************************************************************************)
EXTENDS Integers, Sequences, FiniteSets, TLC

VARIABLES
    pc,                \* position of App::run
    phase,             \* position of the event loop inside one iteration
    exiting,           \* elwt.exit() has been called
    redraw_requested,  \* window.request_redraw() is pending
    scene,             \* the Scene handed to run
    fs_push_constants, \* size_of::<fs::PushConstants>()
    window_size,       \* inner size of the window
    renderer,          \* the VulkanoWindowRenderer of the window
    shaders_loaded,    \* vs::load / fs::load have run
    sample_pipeline,   \* the SamplePipeline (pipeline, descriptor_sets)
    uniform_buffers,   \* contents of the uniform buffers
    models,            \* Vec<MyModel>
    depth_view,        \* run's depth_image, the depth ImageView
    msaa_color_view,   \* run's msaa_color_image, the multisampled colour ImageView
    elapsed,           \* last reading of render_start.elapsed()
    frames,            \* the command buffers recorded so far, one per frame
    available,         \* swapchain images whose acquire future has signalled
    signaled,          \* frames whose completion token has signalled, in order
    ops                \* log of the renderer/queue calls of redraw

vars == <<pc, phase, exiting, redraw_requested, scene, fs_push_constants,
          window_size, renderer, shaders_loaded, sample_pipeline,
          uniform_buffers, models, depth_view, msaa_color_view, elapsed,
          frames, available, signaled, ops>>

---------------------------------------------------------------------------
(* Bounds *)

MaxModels == 2
MaxVerts == 3
MaxIdx == 3
MaxFrames == 2
MaxElapsed == 1

---------------------------------------------------------------------------
(* Values *)

None == [some |-> FALSE, val |-> <<>>]
Some(v) == [some |-> TRUE, val |-> v]

\* WindowDescriptor { width: 1280.0, height: 720.0 }
WindowExtent == <<1280, 720>>

\* Sizes the window can take (Resized / ScaleFactorChanged).
Extents == {WindowExtent, <<2560, 1440>>}

NoExtent == <<0, 0>>

\* size_of::<vs::PushConstants>(): view mat4, proj mat4, camera_pos vec3,
\* padded to 16 bytes.
VsPushConstantsSize == 144

\* The fragment stage's block is declared in the shader source.
FsPushConstantsSizes == {VsPushConstantsSize, VsPushConstantsSize - 16}

\* A vertex of the loaded scene (easy_gltf::model::Vertex); the n-th vertex
\* of a model is told apart by its coordinates.
SceneVertex(n) ==
    [position |-> <<n, n - 2, 0>>, normal |-> <<0, 0, 1>>, tex_coords |-> <<n, 0>>]

SceneIndices(nv, k) == [j \in 1..k |-> (j - 1) % nv]

\* The models a scene is made of: 1..MaxVerts vertices, and either no index
\* list, one index or MaxIdx indices, each below the vertex count.
SceneModels ==
    UNION {{[vertices |-> [n \in 1..nv |-> SceneVertex(n)], indices |-> ix] :
               ix \in {None} \cup {Some(SceneIndices(nv, k)) : k \in {1, MaxIdx}}} :
           nv \in 1..MaxVerts}

Scenes == UNION {[1..n -> SceneModels] : n \in 0..MaxModels}

NoPipeline == [built |-> FALSE]
NoImage == [extent |-> NoExtent, format |-> "none", samples |-> 0]
NoRenderer ==
    [created |-> FALSE, swapchain_extent |-> NoExtent, swapchain_format |-> "none",
     generation |-> 0, recreate_swapchain |-> FALSE, previous_frame_end |-> {}]

\* sync::now(): a token that covers nothing.
now == {}

Last(s) == s[Len(s)]

---------------------------------------------------------------------------
(* lib.rs: geometry upload *)

\* impl From<easy_gltf::model::Vertex> for MyVertex
MyVertexFrom(vertex) ==
    [position |-> vertex.position, normal |-> vertex.normal,
     tex_coord |-> vertex.tex_coords]

\* the closure of model.vertices().iter().map(..): v.position[1] *= -1.0
UploadVertex(v) ==
    LET mv == MyVertexFrom(v)
    IN  [mv EXCEPT !.position = <<mv.position[1], 0 - mv.position[2], mv.position[3]>>]

\* the upload without the flip of the Y axis
UploadModelUnflipped(model) ==
    [vertex_buffer |-> [n \in 1..Len(model.vertices) |-> MyVertexFrom(model.vertices[n])],
     index_buffer  |-> model.indices.val]

\* the closure of scene.models.iter().map(..): one MyModel per model
UploadModel(model) ==
    [vertex_buffer |-> [n \in 1..Len(model.vertices) |-> UploadVertex(model.vertices[n])],
     index_buffer  |-> model.indices.val]


---------------------------------------------------------------------------
(* pipeline/sample/mod.rs: SamplePipeline *)

\* The uniform data written by create_uniform_buffer_from_data; the
\* fractions are kept in tenths (0.1 is 1, 32.0 is 320).
ModelBuffer == [model |-> "identity"]
Material ==
    [ambient |-> <<1, 1, 1>>, diffuse |-> <<7, 7, 7>>, specular |-> <<5, 5, 5>>,
     shininess |-> 320]
Light ==
    [position |-> <<30, 30, 30>>, ambient |-> <<10, 10, 10>>,
     diffuse |-> <<10, 10, 10>>, specular |-> <<20, 20, 20>>]

\* GraphicsPipeline::new(.., GraphicsPipelineCreateInfo {..})
GraphicsPipeline(rendering_info) ==
    [built |-> TRUE,
     stages |-> <<"vs", "fs">>,
     topology |-> "TriangleList",
     cull_mode |-> "Back",
     rasterization_samples |-> 1,      \* MultisampleState::default()
     color_blend_attachments |-> Len(rendering_info.color_attachment_formats),
     depth_compare_op |-> "Less",
     depth_write_enable |-> TRUE,
     dynamic_state |-> {"Viewport"},
     subpass |-> rendering_info]

\* [vertex_descriptor_set, fragment_descriptor_set]: binding -> buffer
DescriptorSets ==
    <<(0 :> "model_uniform"), (0 :> "material_uniform" @@ 1 :> "light_uniform")>>

\* SamplePipeline::new with the assertion placed after the pipeline is built
SamplePipelineNewLateAssert(fs_size, rendering_info) ==
    IF VsPushConstantsSize # fs_size
    THEN [panicked |-> TRUE, shaders_loaded |-> TRUE,
          sample_pipeline |-> NoPipeline, uniform_buffers |-> {}]
    ELSE [panicked |-> FALSE, shaders_loaded |-> TRUE,
          sample_pipeline |-> [pipeline |-> GraphicsPipeline(rendering_info),
                               descriptor_sets |-> DescriptorSets],
          uniform_buffers |-> {[name |-> "model_uniform", data |-> ModelBuffer]}]

\* SamplePipeline::new: the assertion comes first; then the shader modules,
\* the pipeline, the three uniform buffers and the two descriptor sets.
SamplePipelineNew(fs_size, rendering_info) ==
    IF VsPushConstantsSize # fs_size
    THEN [panicked |-> TRUE, shaders_loaded |-> FALSE,
          sample_pipeline |-> NoPipeline, uniform_buffers |-> {}]
    ELSE [panicked |-> FALSE, shaders_loaded |-> TRUE,
          sample_pipeline |-> [pipeline |-> GraphicsPipeline(rendering_info),
                               descriptor_sets |-> DescriptorSets],
          uniform_buffers |-> {[name |-> "model_uniform", data |-> ModelBuffer],
                               [name |-> "material_uniform", data |-> Material],
                               [name |-> "light_uniform", data |-> Light]}]

\* render_object binding only the vertex-stage descriptor set
render_object_one_set(self, builder, vertex_buffer, index_buffer, camera) ==
    builder \o
    <<[cmd |-> "bind_pipeline_graphics", pipeline |-> self.pipeline],
      [cmd |-> "bind_vertex_buffers", first_binding |-> 0, buffer |-> vertex_buffer],
      [cmd |-> "bind_descriptor_sets", first_set |-> 0,
       sets |-> SubSeq(self.descriptor_sets, 1, 1)],
      [cmd |-> "push_constants", offset |-> 0,
       data |-> [view |-> camera.view, proj |-> camera.proj,
                 camera_pos |-> camera.position]],
      [cmd |-> "bind_index_buffer", buffer |-> index_buffer.val],
      [cmd |-> "draw_indexed", index_count |-> Len(index_buffer.val),
       instance_count |-> 1, first_index |-> 0, vertex_offset |-> 0,
       first_instance |-> 0]>>

\* render_object taking the draw's count from the vertex buffer in both branches
render_object_vertex_count(self, builder, vertex_buffer, index_buffer, camera) ==
    builder \o
    <<[cmd |-> "bind_pipeline_graphics", pipeline |-> self.pipeline],
      [cmd |-> "bind_vertex_buffers", first_binding |-> 0, buffer |-> vertex_buffer],
      [cmd |-> "bind_descriptor_sets", first_set |-> 0, sets |-> self.descriptor_sets],
      [cmd |-> "push_constants", offset |-> 0,
       data |-> [view |-> camera.view, proj |-> camera.proj,
                 camera_pos |-> camera.position]]>> \o
    (IF index_buffer.some
     THEN <<[cmd |-> "bind_index_buffer", buffer |-> index_buffer.val],
            [cmd |-> "draw_indexed", index_count |-> Len(vertex_buffer),
             instance_count |-> 1, first_index |-> 0, vertex_offset |-> 0,
             first_instance |-> 0]>>
     ELSE <<[cmd |-> "draw", vertex_count |-> Len(vertex_buffer),
             instance_count |-> 1, first_vertex |-> 0, first_instance |-> 0]>>)

\* SamplePipeline::render_object: the commands it adds to the builder
render_object(self, builder, vertex_buffer, index_buffer, camera) ==
    builder \o
    <<[cmd |-> "bind_pipeline_graphics", pipeline |-> self.pipeline],
      [cmd |-> "bind_vertex_buffers", first_binding |-> 0, buffer |-> vertex_buffer],
      [cmd |-> "bind_descriptor_sets", first_set |-> 0, sets |-> self.descriptor_sets],
      [cmd |-> "push_constants", offset |-> 0,
       data |-> [view |-> camera.view, proj |-> camera.proj,
                 camera_pos |-> camera.position]]>> \o
    (IF index_buffer.some
     THEN <<[cmd |-> "bind_index_buffer", buffer |-> index_buffer.val],
            [cmd |-> "draw_indexed", index_count |-> Len(index_buffer.val),
             instance_count |-> 1, first_index |-> 0, vertex_offset |-> 0,
             first_instance |-> 0]>>
     ELSE <<[cmd |-> "draw", vertex_count |-> Len(vertex_buffer),
             instance_count |-> 1, first_vertex |-> 0, first_instance |-> 0]>>)

---------------------------------------------------------------------------
(* lib.rs: camera_fn and the record closure *)

\* sin and cos of elapsed * 0.5, with elapsed counted in units of pi seconds
\* (a quarter turn of the orbit per unit)
Sin(q) == CASE q % 4 = 0 -> 0 [] q % 4 = 1 -> 1 [] q % 4 = 2 -> 0 [] OTHER -> 0 - 1
Cos(q) == Sin(q + 1)

\* camera_fn: the camera at a reading of the clock
camera_fn(t) ==
    LET position == <<Sin(t) * 3, 1, Cos(t) * 3>>
    IN  [position |-> position,
         view |-> [eye |-> position, center |-> <<0, 0, 0>>, up |-> <<0, 1, 0>>],
         proj |-> [fovy |-> 60, aspect |-> <<1280, 720>>, near |-> 1, far |-> 1000]]

\* the readings the clock can give to n successive calls, none before `from`
RECURSIVE ClockReadings(_, _)
ClockReadings(from, n) ==
    IF n = 0 THEN {<<>>}
    ELSE UNION {{<<t>> \o rest : rest \in ClockReadings(t, n - 1)} : t \in from..MaxElapsed}

\* the closure redraw hands to draw: for model in &models { render_object(..) },
\* camera_fn() being called once per model
RECURSIVE RecordModels(_, _, _, _)
RecordModels(self, builder, ms, readings) ==
    IF ms = <<>> THEN builder
    ELSE RecordModels(self,
                      render_object(self, builder, Head(ms).vertex_buffer,
                                    Some(Head(ms).index_buffer),
                                    camera_fn(Head(readings))),
                      Tail(ms), Tail(readings))

---------------------------------------------------------------------------
(* pipeline/mod.rs: draw *)

\* draw executing the command buffer after sync::now() instead of `before`
draw_unchained(before, command_buffer_allocator, dst_image, depth_image, record_fn) ==
    LET d == [viewport |-> [offset |-> <<0, 0>>, extent |-> dst_image.extent]]
        id == command_buffer_allocator + 1
    IN  [command_buffer |->
            [id |-> id, usage |-> "OneTimeSubmit", level |-> "Primary",
             commands |->
                Append(
                    <<[cmd |-> "begin_rendering",
                       color_attachments |->
                          <<[image_view |-> dst_image, load_op |-> "Clear",
                             store_op |-> "Store", clear_value |-> <<0, 0, 0, 1>>]>>,
                       depth_attachment |->
                          [image_view |-> depth_image, load_op |-> "Clear",
                           store_op |-> "DontCare", clear_value |-> 1]],
                      [cmd |-> "set_viewport", first_viewport |-> 0,
                       viewports |-> <<d.viewport>>]>> \o record_fn,
                    [cmd |-> "end_rendering"])],
         after |-> now \cup {<<"cb", id>>}]

\* draw with a viewport of the window's configured size
draw_fixed_viewport(before, command_buffer_allocator, dst_image, depth_image, record_fn) ==
    LET d == [viewport |-> [offset |-> <<0, 0>>, extent |-> WindowExtent]]
        id == command_buffer_allocator + 1
    IN  [command_buffer |->
            [id |-> id, usage |-> "OneTimeSubmit", level |-> "Primary",
             commands |->
                Append(
                    <<[cmd |-> "begin_rendering",
                       color_attachments |->
                          <<[image_view |-> dst_image, load_op |-> "Clear",
                             store_op |-> "Store", clear_value |-> <<0, 0, 0, 1>>]>>,
                       depth_attachment |->
                          [image_view |-> depth_image, load_op |-> "Clear",
                           store_op |-> "DontCare", clear_value |-> 1]],
                      [cmd |-> "set_viewport", first_viewport |-> 0,
                       viewports |-> <<d.viewport>>]>> \o record_fn,
                    [cmd |-> "end_rendering"])],
         after |-> before \cup {<<"cb", id>>}]

\* draw ending the render scope before the closure has recorded
draw_end_before_record(before, command_buffer_allocator, dst_image, depth_image, record_fn) ==
    LET d == [viewport |-> [offset |-> <<0, 0>>, extent |-> dst_image.extent]]
        id == command_buffer_allocator + 1
    IN  [command_buffer |->
            [id |-> id, usage |-> "OneTimeSubmit", level |-> "Primary",
             commands |->
                <<[cmd |-> "begin_rendering",
                   color_attachments |->
                      <<[image_view |-> dst_image, load_op |-> "Clear",
                         store_op |-> "Store", clear_value |-> <<0, 0, 0, 1>>]>>,
                   depth_attachment |->
                      [image_view |-> depth_image, load_op |-> "Clear",
                       store_op |-> "DontCare", clear_value |-> 1]],
                  [cmd |-> "set_viewport", first_viewport |-> 0,
                   viewports |-> <<d.viewport>>],
                  [cmd |-> "end_rendering"]>> \o record_fn],
         after |-> before \cup {<<"cb", id>>}]

\* draw: a one-time-submit primary command buffer holding begin_rendering,
\* set_viewport, what record_fn records, end_rendering; and the token of
\* before.then_execute(queue, command_buffer).  command_buffer_allocator is
\* the number of command buffers allocated so far; record_fn is given as the
\* commands the closure adds to the builder it is handed.
draw(before, command_buffer_allocator, dst_image, depth_image, record_fn) ==
    LET d == [viewport |-> [offset |-> <<0, 0>>, extent |-> dst_image.extent]]
        id == command_buffer_allocator + 1
    IN  [command_buffer |->
            [id |-> id, usage |-> "OneTimeSubmit", level |-> "Primary",
             commands |->
                Append(
                    <<[cmd |-> "begin_rendering",
                       color_attachments |->
                          <<[image_view |-> dst_image, load_op |-> "Clear",
                             store_op |-> "Store", clear_value |-> <<0, 0, 0, 1>>]>>,
                       depth_attachment |->
                          [image_view |-> depth_image, load_op |-> "Clear",
                           store_op |-> "DontCare", clear_value |-> 1]],
                      [cmd |-> "set_viewport", first_viewport |-> 0,
                       viewports |-> <<d.viewport>>]>> \o record_fn,
                    [cmd |-> "end_rendering"])],
         after |-> before \cup {<<"cb", id>>}]

---------------------------------------------------------------------------
(* vulkano_util's VulkanoWindowRenderer, as run uses it *)

\* the view of the swapchain image in use: renderer.swapchain_image_view()
swapchain_image_view(r) ==
    [extent |-> r.swapchain_extent, format |-> r.swapchain_format, samples |-> 1]

\* renderer.resize()
resize(r) == [r EXCEPT !.recreate_swapchain = TRUE]

\* the first half of renderer.acquire(): a swapchain marked for recreation
\* is recreated at the window's size
recreate_swapchain_and_views(r, size) ==
    IF r.recreate_swapchain
    THEN [r EXCEPT !.swapchain_extent = size, !.generation = @ + 1,
                   !.recreate_swapchain = FALSE]
    ELSE r

\* the token renderer.acquire() returns for image n
acquire_future(r, n) == r.previous_frame_end \cup {<<"image", n>>}

---------------------------------------------------------------------------
(* lib.rs: App::run, startup *)

Init ==
    /\ pc = "start"
    /\ phase = "none"
    /\ exiting = FALSE
    /\ redraw_requested = FALSE
    /\ scene \in Scenes
    /\ fs_push_constants \in FsPushConstantsSizes
    /\ window_size = NoExtent
    /\ renderer = NoRenderer
    /\ shaders_loaded = FALSE
    /\ sample_pipeline = NoPipeline
    /\ uniform_buffers = {}
    /\ models = <<>>
    /\ depth_view = NoImage
    /\ msaa_color_view = NoImage
    /\ elapsed = 0
    /\ frames = <<>>
    /\ available = {}
    /\ signaled = <<>>
    /\ ops = <<>>

\* EventLoop::new, windows.create_window: the window and its swapchain
CreateWindow ==
    /\ pc = "start"
    /\ pc' = "window"
    /\ window_size' = WindowExtent
    /\ renderer' = [created |-> TRUE, swapchain_extent |-> WindowExtent,
                    swapchain_format |-> "R16G16B16A16_SFLOAT", generation |-> 1,
                    recreate_swapchain |-> FALSE, previous_frame_end |-> now]
    /\ UNCHANGED <<phase, exiting, redraw_requested, scene, fs_push_constants,
                   shaders_loaded, sample_pipeline, uniform_buffers, models,
                   depth_view, msaa_color_view, elapsed, frames, available,
                   signaled, ops>>

\* let sample_pipeline = SamplePipeline::new(&self, queue, PipelineRenderingCreateInfo {..})
NewSamplePipeline ==
    /\ pc = "window"
    /\ LET made == SamplePipelineNew(fs_push_constants,
                      [color_attachment_formats |-> <<renderer.swapchain_format>>,
                       depth_attachment_format |-> "D32_SFLOAT"])
       IN  /\ pc' = IF made.panicked THEN "panicked" ELSE "pipeline"
           /\ shaders_loaded' = made.shaders_loaded
           /\ sample_pipeline' = made.sample_pipeline
           /\ uniform_buffers' = made.uniform_buffers
    /\ UNCHANGED <<phase, exiting, redraw_requested, scene, fs_push_constants,
                   window_size, renderer, models, depth_view, msaa_color_view,
                   elapsed, frames, available, signaled, ops>>

\* let models = scene.models.iter().map(..).collect(): model.indices().unwrap()
\* panics on a model that has no indices
UploadModels ==
    /\ pc = "pipeline"
    /\ IF \E n \in 1..Len(scene) : ~scene[n].indices.some
       THEN pc' = "panicked" /\ models' = models
       ELSE pc' = "models" /\ models' = [n \in 1..Len(scene) |-> UploadModel(scene[n])]
    /\ UNCHANGED <<phase, exiting, redraw_requested, scene, fs_push_constants,
                   window_size, renderer, shaders_loaded, sample_pipeline,
                   uniform_buffers, depth_view, msaa_color_view, elapsed, frames,
                   available, signaled, ops>>

\* render_start, extent, samples, depth_image, msaa_color_image; then
\* event_loop.run installs the handler
CreateImages ==
    /\ pc = "models"
    /\ pc' = "running"
    /\ phase' = "events"
    /\ elapsed' = 0
    /\ depth_view' = [extent |-> swapchain_image_view(renderer).extent,
                      format |-> "D32_SFLOAT", samples |-> 4]
    /\ msaa_color_view' = [extent |-> swapchain_image_view(renderer).extent,
                           format |-> "R16G16B16A16_SFLOAT", samples |-> 4]
    /\ UNCHANGED <<exiting, redraw_requested, scene, fs_push_constants,
                   window_size, renderer, shaders_loaded, sample_pipeline,
                   uniform_buffers, models, frames, available, signaled, ops>>

---------------------------------------------------------------------------
(* lib.rs: the event handler *)

\* WindowEvent::CloseRequested => elwt.exit()
CloseRequested ==
    /\ pc = "running" /\ phase = "events"
    /\ exiting' = TRUE
    /\ UNCHANGED <<pc, phase, redraw_requested, scene, fs_push_constants,
                   window_size, renderer, shaders_loaded, sample_pipeline,
                   uniform_buffers, models, depth_view, msaa_color_view, elapsed,
                   frames, available, signaled, ops>>

\* WindowEvent::Resized(..) => renderer.resize()
Resized ==
    /\ pc = "running" /\ phase = "events"
    /\ \E size \in Extents : window_size' = size
    /\ renderer' = resize(renderer)
    /\ UNCHANGED <<pc, phase, exiting, redraw_requested, scene, fs_push_constants,
                   shaders_loaded, sample_pipeline, uniform_buffers, models,
                   depth_view, msaa_color_view, elapsed, frames, available,
                   signaled, ops>>

\* WindowEvent::ScaleFactorChanged { .. } => renderer.resize()
ScaleFactorChanged ==
    /\ pc = "running" /\ phase = "events"
    /\ \E size \in Extents : window_size' = size
    /\ renderer' = resize(renderer)
    /\ UNCHANGED <<pc, phase, exiting, redraw_requested, scene, fs_push_constants,
                   shaders_loaded, sample_pipeline, uniform_buffers, models,
                   depth_view, msaa_color_view, elapsed, frames, available,
                   signaled, ops>>

\* what the frame's steps can come to
FrameOutcomes ==
    {"ok", "acquire_error", "execute_error", "present_error", "present_out_of_date"}

\* an acquire whose error is dropped
AfterAcquireErrorIgnored == "running"

\* renderer.acquire().unwrap()
AfterAcquireError == "panicked"

\* a then_execute whose error is dropped
AfterExecuteErrorIgnored == "running"

\* before.then_execute(queue, command_buffer).unwrap()
AfterExecuteError == "panicked"

\* renderer.present(after, true); nothing of the call is looked at
AfterPresentError == "running"

Op(op, n, ok) == [op |-> op, frame |-> n, ok |-> ok]

\* WindowEvent::RedrawRequested => redraw(renderer), up to the point where
\* present waits for the frame's fence
RedrawRequested ==
    /\ pc = "running" /\ phase = "events" /\ redraw_requested
    /\ Len(frames) < MaxFrames
    /\ redraw_requested' = FALSE
    /\ \E outcome \in FrameOutcomes, readings \in ClockReadings(elapsed, Len(models)) :
         LET n == Len(frames) + 1
             acquired == recreate_swapchain_and_views(renderer, window_size)
             before == acquire_future(acquired, n)
             record == RecordModels(sample_pipeline, <<>>, models, readings)
             drawn == draw(before, Len(frames), swapchain_image_view(acquired),
                           depth_view, record)
             frame(status) ==
                 [id |-> drawn.command_buffer.id, image |-> n, before |-> before,
                  after |-> IF status = "execute_failed" THEN now ELSE drawn.after,
                  command_buffer |-> drawn.command_buffer,
                  msaa_color_image |-> msaa_color_view,
                  exiting |-> exiting, status |-> status]
         IN  IF outcome = "acquire_error"
             THEN /\ pc' = AfterAcquireError
                  /\ phase' = IF AfterAcquireError = "running" THEN "wait" ELSE phase
                  /\ renderer' = [acquired EXCEPT !.recreate_swapchain = TRUE]
                  /\ ops' = Append(ops, Op("acquire", n, FALSE))
                  /\ UNCHANGED <<frames, elapsed>>
             ELSE /\ elapsed' = IF readings = <<>> THEN elapsed ELSE Last(readings)
                  /\ CASE outcome = "execute_error" ->
                            /\ pc' = AfterExecuteError
                            /\ phase' = IF AfterExecuteError = "running" THEN "wait" ELSE phase
                            /\ renderer' = acquired
                            /\ frames' = Append(frames, frame("execute_failed"))
                            /\ ops' = ops \o <<Op("acquire", n, TRUE), Op("submit", n, FALSE)>>
                       [] outcome \in {"present_error", "present_out_of_date"} ->
                            /\ pc' = AfterPresentError
                            /\ phase' = IF AfterPresentError = "running" THEN "wait" ELSE phase
                            /\ renderer' =
                                 [acquired EXCEPT
                                    !.previous_frame_end = now,
                                    !.recreate_swapchain = (outcome = "present_out_of_date")]
                            /\ frames' = Append(frames, frame("present_failed"))
                            /\ ops' = ops \o <<Op("acquire", n, TRUE), Op("submit", n, TRUE),
                                               Op("present", n, FALSE)>>
                       [] OTHER ->
                            /\ pc' = "presenting"
                            /\ phase' = phase
                            /\ renderer' = acquired
                            /\ frames' = Append(frames, frame("flushed"))
                            /\ ops' = ops \o <<Op("acquire", n, TRUE), Op("submit", n, TRUE),
                                               Op("present", n, TRUE)>>
    /\ UNCHANGED <<exiting, scene, fs_push_constants, window_size, shaders_loaded,
                   sample_pipeline, uniform_buffers, models, depth_view,
                   msaa_color_view, available, signaled>>

Range(s) == {s[i] : i \in 1..Len(s)}

\* the presentation engine hands over the image the frame has acquired
ImageAvailable ==
    /\ pc = "presenting"
    /\ Last(frames).image \notin available
    /\ available' = available \cup {Last(frames).image}
    /\ UNCHANGED <<pc, phase, exiting, redraw_requested, scene, fs_push_constants,
                   window_size, renderer, shaders_loaded, sample_pipeline,
                   uniform_buffers, models, depth_view, msaa_color_view, elapsed,
                   frames, signaled, ops>>

\* what a token waits for is done
Covered(token) ==
    \A dep \in token :
       \/ dep[1] = "image" /\ dep[2] \in available
       \/ dep[1] = "cb" /\ dep[2] \in Range(signaled)

\* the queue executes a flushed command buffer once all that its token was
\* chained after is done; its completion token signals
GpuExecute ==
    /\ \E i \in 1..Len(frames) :
          /\ frames[i].status = "flushed"
          /\ frames[i].id \notin Range(signaled)
          /\ Covered(frames[i].after \ {<<"cb", frames[i].id>>})
          /\ signaled' = Append(signaled, frames[i].id)
    /\ UNCHANGED <<pc, phase, exiting, redraw_requested, scene, fs_push_constants,
                   window_size, renderer, shaders_loaded, sample_pipeline,
                   uniform_buffers, models, depth_view, msaa_color_view, elapsed,
                   frames, available, ops>>

\* present's future.wait(None) returns: previous_frame_end = Some(future),
\* and redraw returns to the event loop
PresentReturn ==
    /\ pc = "presenting"
    /\ Last(frames).id \in Range(signaled)
    /\ pc' = "running"
    /\ phase' = "wait"
    /\ renderer' = [renderer EXCEPT !.previous_frame_end = Last(frames).after]
    /\ UNCHANGED <<exiting, redraw_requested, scene, fs_push_constants,
                   window_size, shaders_loaded, sample_pipeline, uniform_buffers,
                   models, depth_view, msaa_color_view, elapsed, frames, available,
                   signaled, ops>>

\* a loop that goes on after exit was called
AfterAboutToWaitNoExit == "running"

\* event_loop.run(..): the loop leaves once an iteration ends with exit called
AfterAboutToWait == IF exiting THEN "exited" ELSE "running"

\* Event::AboutToWait => window.request_redraw(); the last event of an
\* iteration (an iteration with no redraw pending goes straight to it)
AboutToWait ==
    /\ pc = "running"
    /\ phase = "wait" \/ (phase = "events" /\ ~redraw_requested)
    /\ redraw_requested' = TRUE
    /\ pc' = AfterAboutToWait
    /\ phase' = "events"
    /\ UNCHANGED <<exiting, scene, fs_push_constants, window_size, renderer,
                   shaders_loaded, sample_pipeline, uniform_buffers, models,
                   depth_view, msaa_color_view, elapsed, frames, available,
                   signaled, ops>>

Next ==
    \/ CreateWindow
    \/ NewSamplePipeline
    \/ UploadModels
    \/ CreateImages
    \/ CloseRequested
    \/ Resized
    \/ ScaleFactorChanged
    \/ RedrawRequested
    \/ ImageAvailable
    \/ GpuExecute
    \/ PresentReturn
    \/ AboutToWait

Spec == Init /\ [][Next]_vars

---------------------------------------------------------------------------
(* Reading the recorded frames *)

Commands(i) == frames[i].command_buffer.commands

Select(cmds, names) == SelectSeq(cmds, LAMBDA c : c.cmd \in names)

Draws(cmds) == Select(cmds, {"draw", "draw_indexed"})

\* run has gone past the model upload
Uploaded == depth_view # NoImage \/ pc = "models"

---------------------------------------------------------------------------
(* C1 *)

---------------------------------------------------------------------------
(* C2 *)

IndexedDraw(k) ==
    [cmd |-> "draw_indexed", index_count |-> k, instance_count |-> 1,
     first_index |-> 0, vertex_offset |-> 0, first_instance |-> 0]

PlainDraw(n) ==
    [cmd |-> "draw", vertex_count |-> n, instance_count |-> 1, first_vertex |-> 0,
     first_instance |-> 0]

---------------------------------------------------------------------------
(* C3 *)

ColorView(i) == Commands(i)[1].color_attachments[1].image_view
DepthView(i) == Commands(i)[1].depth_attachment.image_view

\* C3: in every frame the depth view and the multisampled colour view have
\* the extent of the acquired swapchain image (they are recreated, with the
\* swapchain, after a resize or scale change).
C3_AttachmentsFollowResize ==
    \A i \in 1..Len(frames) :
       /\ DepthView(i).extent = ColorView(i).extent
       /\ frames[i].msaa_color_image.extent = ColorView(i).extent

---------------------------------------------------------------------------
(* C4 *)

\* C4: every frame's viewport is the full extent of its destination colour
\* view, and every frame binds the one pipeline built at startup, which has a
\* dynamic viewport and is the pipeline the program still holds.
C4_ViewportFollowsTarget ==
    \A i \in 1..Len(frames) :
       /\ Commands(i)[2].cmd = "set_viewport"
       /\ Commands(i)[2].viewports = <<[offset |-> <<0, 0>>, extent |-> ColorView(i).extent]>>
       /\ \A k \in 1..Len(Commands(i)) :
             Commands(i)[k].cmd = "bind_pipeline_graphics" =>
                /\ Commands(i)[k].pipeline = sample_pipeline.pipeline
                /\ "Viewport" \in Commands(i)[k].pipeline.dynamic_state

\* two frames of different output extents, drawn with the same pipeline
C4_Witness ==
    /\ Len(frames) >= 2
    /\ ColorView(1).extent # ColorView(2).extent
    /\ Commands(1)[2].viewports # Commands(2)[2].viewports
    /\ Len(models) >= 1
    /\ Commands(1)[3] = Commands(2)[3]
    /\ Commands(1)[3].cmd = "bind_pipeline_graphics"

---------------------------------------------------------------------------
(* C5 *)

\* C5: with push-constant blocks of different sizes the run never gets past
\* SamplePipeline::new: no shader module loaded, no pipeline, no buffer, no
\* image, no frame acquired, recorded, submitted or presented.
C5_MismatchFailsFirst ==
    fs_push_constants # VsPushConstantsSize =>
       /\ pc \in {"start", "window", "panicked"}
       /\ ~shaders_loaded
       /\ sample_pipeline = NoPipeline
       /\ uniform_buffers = {}
       /\ models = <<>>
       /\ depth_view = NoImage /\ msaa_color_view = NoImage
       /\ frames = <<>> /\ ops = <<>> /\ signaled = <<>>

\* the assertion has failed
C5_Witness ==
    /\ fs_push_constants # VsPushConstantsSize
    /\ renderer.created
    /\ pc = "panicked"

---------------------------------------------------------------------------
(* C6 *)

\* C6 as stated: after the upload there is one (vertex buffer, index buffer)
\* pair per model, each holding exactly the model's vertices and indices in
\* order, every index below the model's vertex count.
C6_UploadIsExact ==
    Uploaded =>
       /\ Len(models) = Len(scene)
       /\ \A m \in 1..Len(models) :
             /\ Len(models[m].vertex_buffer) = Len(scene[m].vertices)
             /\ \A n \in 1..Len(models[m].vertex_buffer) :
                   /\ models[m].vertex_buffer[n].position = scene[m].vertices[n].position
                   /\ models[m].vertex_buffer[n].normal = scene[m].vertices[n].normal
                   /\ models[m].vertex_buffer[n].tex_coord = scene[m].vertices[n].tex_coords
             /\ models[m].index_buffer = scene[m].indices.val
             /\ \A k \in 1..Len(models[m].index_buffer) :
                   models[m].index_buffer[k] < Len(models[m].vertex_buffer)

\* C6, amended: one pair per model; the vertex buffer holds the model's
\* vertices in order with the Y component of the position negated, normal
\* and texture coordinates as loaded; the index buffer holds exactly the
\* model's indices; every index is below the model's vertex count.
C6_UploadFlipsY ==
    Uploaded =>
       /\ Len(models) = Len(scene)
       /\ \A m \in 1..Len(models) :
             /\ Len(models[m].vertex_buffer) = Len(scene[m].vertices)
             /\ \A n \in 1..Len(models[m].vertex_buffer) :
                   /\ models[m].vertex_buffer[n].position[1] = scene[m].vertices[n].position[1]
                   /\ models[m].vertex_buffer[n].position[2] = 0 - scene[m].vertices[n].position[2]
                   /\ models[m].vertex_buffer[n].position[3] = scene[m].vertices[n].position[3]
                   /\ models[m].vertex_buffer[n].normal = scene[m].vertices[n].normal
                   /\ models[m].vertex_buffer[n].tex_coord = scene[m].vertices[n].tex_coords
             /\ models[m].index_buffer = scene[m].indices.val
             /\ \A k \in 1..Len(models[m].index_buffer) :
                   models[m].index_buffer[k] < Len(models[m].vertex_buffer)

\* two models uploaded, one of them with a vertex off the XZ plane
C6_Witness ==
    /\ Uploaded
    /\ Len(models) = 2
    /\ Len(models[1].vertex_buffer) = 3
    /\ models[1].vertex_buffer[1].position[2] = 1
    /\ scene[1].vertices[1].position[2] = 0 - 1
    /\ Len(models[2].index_buffer) = 3

---------------------------------------------------------------------------
(* C7 *)

Startup == {"start", "window", "pipeline", "models"}

FramesAfterClose == {i \in 1..Len(frames) : frames[i].exiting}

\* C7 as stated: nothing is acquired, submitted or presented before the
\* window and swapchain exist, and once a close request has been handled no
\* event causes another acquire, submission, present or redraw request.
C7_CloseIsTerminal ==
    [][/\ ops' # ops => renderer.created
       /\ exiting => /\ ops' = ops
                     /\ frames' = frames
                     /\ redraw_requested' => redraw_requested]_vars

\* C7, amended: nothing is acquired, submitted or presented before the
\* handler runs on an existing window and swapchain; the run never goes back
\* from running to startup; once a close request has been handled, the events
\* left in the iteration are still handled (at most one more frame, and the
\* redraw request of AboutToWait), the loop exits at the end of that
\* iteration, and after the exit nothing changes.
C7_CloseEndsIteration ==
    [][/\ ops' # ops => (renderer.created /\ pc = "running")
       /\ pc \notin Startup => pc' \notin Startup
       /\ pc = "exited" => UNCHANGED vars
       /\ (exiting /\ frames' # frames) => FramesAfterClose = {}
       /\ (exiting /\ pc = "running" /\ phase' = "events" /\ phase = "wait")
             => pc' = "exited"
       /\ pc' = "exited" => exiting]_vars

\* the loop has exited after rendering a frame behind a close request
C7_Witness ==
    /\ pc = "exited"
    /\ FramesAfterClose # {}

---------------------------------------------------------------------------
(* C8 *)

Step(k) == <<"acquire", "submit", "present">>[((k - 1) % 3) + 1]

\* C8: the renderer and queue calls of the redraws are acquire, submit,
\* present, acquire, submit, present, ..: the k-th triple belongs to the k-th
\* frame and presents the image it acquired; whenever the handler has
\* returned there are exactly three calls per handled redraw, so acquires and
\* presents alternate and no redraw is skipped or batched.
C8_AcquireSubmitPresent ==
    /\ \A k \in 1..Len(ops) :
          /\ ops[k].op = Step(k)
          /\ ops[k].frame = ((k - 1) \div 3) + 1
    /\ pc \in {"running", "presenting", "exited"} =>
          /\ Len(ops) = 3 * Len(frames)
          /\ \A i \in 1..Len(frames) :
                /\ frames[i].image = i
                /\ ops[3 * i - 2] = Op("acquire", i, TRUE)
                /\ ops[3 * i - 1] = Op("submit", i, TRUE)
                /\ ops[3 * i].op = "present" /\ ops[3 * i].frame = frames[i].image

\* two redraws handled, one after the other
C8_Witness ==
    /\ pc = "running"
    /\ Len(frames) = 2
    /\ Len(ops) = 6
    /\ ops[6] = Op("present", 2, TRUE)

---------------------------------------------------------------------------
(* C9 *)

---------------------------------------------------------------------------
(* C10 *)

BindsOf(fs, i) == Select(fs[i].command_buffer.commands, {"bind_descriptor_sets"})

\* C10: once the pipeline is constructed, no step changes the descriptor
\* sets, the uniform buffers or the models' vertex and index buffers; every
\* draw of every frame binds, from set 0, the same two sets: set 0 with the
\* model transform at binding 0, set 1 with the material at binding 0 and the
\* light at binding 1, each naming a uniform buffer written at construction.
C10_SceneResourcesUnchanged ==
    [][/\ sample_pipeline # NoPipeline =>
             /\ sample_pipeline' = sample_pipeline
             /\ uniform_buffers' = uniform_buffers
       /\ Uploaded => models' = models
       /\ \A i \in 1..Len(frames') :
             /\ Len(BindsOf(frames', i)) = Len(models')
             /\ \A k \in 1..Len(BindsOf(frames', i)) :
                   /\ BindsOf(frames', i)[k].first_set = 0
                   /\ BindsOf(frames', i)[k].sets = sample_pipeline'.descriptor_sets
                   /\ BindsOf(frames', i)[k].sets =
                         <<(0 :> "model_uniform"),
                           (0 :> "material_uniform" @@ 1 :> "light_uniform")>>
                   /\ {"model_uniform", "material_uniform", "light_uniform"}
                         = {b.name : b \in uniform_buffers'}]_vars

\* two frames drawn, each binding the sets for a model
C10_Witness ==
    /\ Len(frames) = 2
    /\ Len(models) >= 1
    /\ BindsOf(frames, 1) # <<>>
    /\ BindsOf(frames, 1) = BindsOf(frames, 2)

---------------------------------------------------------------------------
(* C11 *)

\* the pipelines bound by frame i's commands
BoundPipelines(i) ==
    {c.pipeline : c \in Range(Select(Commands(i), {"bind_pipeline_graphics"}))}

\* C11: in every frame the multisample count of the pipeline that is bound
\* equals the sample count of the frame's depth attachment and of its
\* multisampled colour attachment, and the pipeline's colour and depth
\* formats are those attachments' formats.
C11_PipelineMatchesTargets ==
    \A i \in 1..Len(frames) :
       \A p \in BoundPipelines(i) :
          /\ p.rasterization_samples = DepthView(i).samples
          /\ p.rasterization_samples = frames[i].msaa_color_image.samples
          /\ p.subpass.color_attachment_formats = <<frames[i].msaa_color_image.format>>
          /\ p.subpass.color_attachment_formats = <<ColorView(i).format>>
          /\ p.subpass.depth_attachment_format = DepthView(i).format

---------------------------------------------------------------------------
(* C12 *)

\* cmds is, for each model of ms in order, bind pipeline, bind that model's
\* vertex buffer, bind two descriptor sets, push constants, then either a
\* draw or the binding of that model's index buffer and an indexed draw
RECURSIVE IsObjectSequence(_, _)
IsObjectSequence(cmds, ms) ==
    IF ms = <<>> THEN cmds = <<>>
    ELSE /\ Len(cmds) >= 5
         /\ cmds[1].cmd = "bind_pipeline_graphics"
         /\ cmds[2].cmd = "bind_vertex_buffers"
         /\ cmds[2].buffer = Head(ms).vertex_buffer
         /\ cmds[3].cmd = "bind_descriptor_sets" /\ Len(cmds[3].sets) = 2
         /\ cmds[4].cmd = "push_constants"
         /\ \/ /\ cmds[5].cmd = "draw"
               /\ IsObjectSequence(SubSeq(cmds, 6, Len(cmds)), Tail(ms))
            \/ /\ Len(cmds) >= 6
               /\ cmds[5].cmd = "bind_index_buffer"
               /\ cmds[5].buffer = Head(ms).index_buffer
               /\ cmds[6].cmd = "draw_indexed"
               /\ IsObjectSequence(SubSeq(cmds, 7, Len(cmds)), Tail(ms))

\* the shape of a finished recording f of the models ms
FrameShape(f, ms) ==
    LET c == f.command_buffer.commands
    IN  /\ Len(c) >= 3
        /\ c[1].cmd = "begin_rendering"
        /\ c[2].cmd = "set_viewport"
        /\ IsObjectSequence(SubSeq(c, 3, Len(c) - 1), ms)
        /\ c[Len(c)].cmd = "end_rendering"
        /\ \A k \in 1..Len(c) :
              /\ c[k].cmd = "begin_rendering" => k = 1
              /\ c[k].cmd = "end_rendering" => k = Len(c)
              /\ c[k].cmd \in {"draw", "draw_indexed"} => (1 < k /\ k < Len(c))

\* the calls of then_execute made for frame n
SubmitsOf(os, n) == {k \in 1..Len(os) : os[k].op = "submit" /\ os[k].frame = n}

\* C12: every frame's commands are begin_rendering, set_viewport, then for
\* each model in order [bind pipeline, bind vertex buffer, bind the two
\* descriptor sets, push constants, (bind index buffer,) draw], then
\* end_rendering; every draw lies between the one begin and the one end; the
\* finished one-time-submit buffer is the one then_execute chains after
\* `before`.  The step that starts a recording also ends, finalizes and
\* submits it, once (a failed then_execute stops the run), handles no window
\* event, and no later step touches a recorded frame.
C12_RecordingRunsToSubmission ==
    [][/\ \A i \in 1..Len(frames') :
             /\ FrameShape(frames'[i], models')
             /\ frames'[i].command_buffer.usage = "OneTimeSubmit"
             /\ frames'[i].command_buffer.level = "Primary"
             /\ frames'[i].command_buffer.id = frames'[i].id
             /\ \A j \in 1..Len(frames') : frames'[j].id = frames'[i].id => j = i
             /\ Cardinality(SubmitsOf(ops', i)) = 1
             /\ \A k \in SubmitsOf(ops', i) :
                   IF ops'[k].ok
                   THEN /\ frames'[i].status # "execute_failed"
                        /\ frames'[i].after =
                              frames'[i].before \cup {<<"cb", frames'[i].id>>}
                   ELSE /\ frames'[i].status = "execute_failed"
                        /\ i = Len(frames') /\ k = Len(ops') /\ pc' = "panicked"
       /\ (sample_pipeline' # NoPipeline /\ Uploaded') =>
             \A k \in 1..Len(models') :
                IsObjectSequence(
                    render_object(sample_pipeline', <<>>, models'[k].vertex_buffer,
                                  None, camera_fn(0)),
                    <<models'[k]>>)
       /\ IF Len(frames') = Len(frames)
          THEN frames' = frames
          ELSE /\ frames' = Append(frames, Last(frames'))
               /\ exiting' = exiting /\ window_size' = window_size
               /\ models' = models /\ sample_pipeline' = sample_pipeline
               /\ Len(ops') >= Len(ops) + 2
               /\ SubSeq(ops', 1, Len(ops)) = ops
               /\ ops'[Len(ops) + 1] = Op("acquire", Len(frames'), TRUE)
               /\ ops'[Len(ops) + 2].op = "submit"]_vars

\* two frames of two models each recorded, submitted and executed, the window
\* having been resized between them
C12_Witness ==
    /\ Len(models) = 2
    /\ Len(frames) = 2
    /\ Len(Commands(1)) = 15 /\ Len(Commands(2)) = 15
    /\ frames[1].status = "flushed" /\ frames[2].status = "flushed"
    /\ ColorView(2).extent # ColorView(1).extent
    /\ frames[2].id \in Range(signaled)

---------------------------------------------------------------------------
(* C13 *)

\* the push constants of frame i, one per object drawn
PushConstantsOf(i) == Select(Commands(i), {"push_constants"})

\* C13: the camera is computed once per frame: every object drawn in a frame
\* is pushed the same view, proj and camera_pos, whatever the number of
\* models (one push per model).
C13_OneCameraPerFrame ==
    \A i \in 1..Len(frames) :
       /\ Len(PushConstantsOf(i)) = Len(models)
       /\ \A a, b \in 1..Len(PushConstantsOf(i)) :
             /\ PushConstantsOf(i)[a].data.view = PushConstantsOf(i)[b].data.view
             /\ PushConstantsOf(i)[a].data.proj = PushConstantsOf(i)[b].data.proj
             /\ PushConstantsOf(i)[a].data.camera_pos
                   = PushConstantsOf(i)[b].data.camera_pos

=============================================================================
